---- MODULE Spec2Model ----
(***************************************************************************)
(* Model of hashbox/frozen/frozen_attr.py: the immutable single-attribute  *)
(* index FrozenAttrIndex and its collision-bucketed part ObjsByHash.       *)
(*                                                                         *)
(* An index is built once from a sequence of objects and then only read.   *)
(* Init is the state right after FrozenAttrIndex.__init__ for an input     *)
(* drawn from bounded sets; the actions are the three read operations      *)
(* get(val), get_all() and __len__().                                      *)
(*                                                                         *)
(* Arrays are TLA+ sequences; offsets stored in the index (hash_starts,    *)
(* val_starts, start/end pointers) are 0-based as in the source.           *)
(***************************************************************************)
EXTENDS Integers, Sequences, FiniteSets, TLC

\* Longest object sequence an index is built from.
MaxLen == 5
\* Number of distinct attribute values objects can carry.
NumVals == 4
\* Number of distinct values that share one hash (forces collisions).
ValsPerHash == 3
\* Largest cardinality threshold tried.
MaxThresh == 2

\* The attribute values: instances of a value type that supports only
\* equality and hashing.
Vals == 0..(NumVals - 1)

\* hash(val): equal values hash equal, unequal values may collide.
hash(val) == val \div ValsPerHash

VARIABLES
    objs,            \* attribute value of each object, in object-id order
    SIZE_THRESH,     \* cardinality threshold the index was built with
    val_to_obj_ids,  \* high-cardinality mapping, as the sequence of its
                     \* (key, ids) items in insertion order
    objs_by_hash,    \* ObjsByHash record, or None
    call,            \* the last read operation issued
    ret,             \* what it returned
    raised           \* the exception it raised, "none" if it returned

vars == <<objs, SIZE_THRESH, val_to_obj_ids, objs_by_hash, call, ret, raised>>

----------------------------------------------------------------------------
\* Array primitives.

\* arr[i] with a 0-based index.
At(arr, i) == arr[i + 1]

\* arr[start:end] with 0-based half-open bounds.
Slice(arr, start, end) == SubSeq(arr, start + 1, end)

\* The set of elements of a sequence.
Elems(arr) == {arr[i] : i \in 1..Len(arr)}

\* np.arange(n)
arange(n) == [i \in 1..n |-> i - 1]

\* make_empty_array(dtype)
make_empty_array == <<>>

RECURSIVE InsertAsc(_, _)
InsertAsc(x, s) ==
    IF Len(s) = 0 \/ s[Len(s)] <= x
    THEN Append(s, x)
    ELSE Append(InsertAsc(x, SubSeq(s, 1, Len(s) - 1)), s[Len(s)])

\* np.sort(arr): ascending, duplicates kept.
RECURSIVE np_sort(_)
np_sort(arr) ==
    IF Len(arr) = 0 THEN <<>>
    ELSE InsertAsc(arr[Len(arr)], np_sort(SubSeq(arr, 1, Len(arr) - 1)))

\* arr[np.where(mask)]: the elements at the positions where mask is TRUE,
\* in their original relative order.
RECURSIVE Compact(_, _)
Compact(arr, mask) ==
    IF Len(arr) = 0 THEN <<>>
    ELSE LET rest == Compact(SubSeq(arr, 1, Len(arr) - 1),
                             SubSeq(mask, 1, Len(mask) - 1))
         IN IF mask[Len(mask)] THEN Append(rest, arr[Len(arr)]) ELSE rest

\* The ascending enumeration of a finite set of integers.
RECURSIVE SortedSeqOf(_)
SortedSeqOf(S) ==
    IF S = {} THEN <<>>
    ELSE LET m == CHOOSE x \in S : \A y \in S : y <= x
         IN Append(SortedSeqOf(S \ {m}), m)

----------------------------------------------------------------------------
\* The helpers of hashbox.init_helpers.

\* run_length_encode(arr): start offset, length and element of every
\* maximal run of equal consecutive elements.
run_length_encode(arr) ==
    LET n == Len(arr)
        firsts == SortedSeqOf({i \in 1..n : i = 1 \/ arr[i - 1] # arr[i]})
        lasts  == SortedSeqOf({i \in 1..n : i = n \/ arr[i + 1] # arr[i]})
    IN [starts      |-> [k \in 1..Len(firsts) |-> firsts[k] - 1],
        run_lengths |-> [k \in 1..Len(firsts) |-> lasts[k] - firsts[k] + 1],
        unique      |-> [k \in 1..Len(firsts) |-> arr[firsts[k]]]]

RECURSIVE InsertByHash(_, _)
InsertByHash(t, s) ==
    IF Len(s) = 0 \/ s[Len(s)].h <= t.h
    THEN Append(s, t)
    ELSE Append(InsertByHash(t, SubSeq(s, 1, Len(s) - 1)), s[Len(s)])

RECURSIVE StableSortByHash(_)
StableSortByHash(ts) ==
    IF Len(ts) = 0 THEN <<>>
    ELSE InsertByHash(ts[Len(ts)], StableSortByHash(SubSeq(ts, 1, Len(ts) - 1)))

\* sort_by_hash(objs, obj_id_arr, attr): three parallel arrays, stably
\* sorted ascending by hash of the attribute value.
sort_by_hash(os, obj_id_arr) ==
    LET ts == [i \in 1..Len(os) |->
                  [h |-> hash(os[i]), v |-> os[i], id |-> obj_id_arr[i]]]
        s  == StableSortByHash(ts)
    IN [sorted_hashes  |-> [i \in 1..Len(s) |-> s[i].h],
        sorted_vals    |-> [i \in 1..Len(s) |-> s[i].v],
        sorted_obj_ids |-> [i \in 1..Len(s) |-> s[i].id]]

\* One run of equal hash, regrouped: the entries carrying the first value,
\* in their relative order, then the regrouped remainder.
RECURSIVE GroupRun(_)
GroupRun(run) ==
    IF Len(run) = 0 THEN <<>>
    ELSE LET v == run[1].v
         IN SelectSeq(run, LAMBDA t : t.v = v)
              \o GroupRun(SelectSeq(run, LAMBDA t : t.v # v))

RECURSIVE GroupRuns(_, _, _)
GroupRuns(pairs, rle, k) ==
    IF k > Len(rle.starts) THEN <<>>
    ELSE GroupRun(Slice(pairs, rle.starts[k], rle.starts[k] + rle.run_lengths[k]))
           \o GroupRuns(pairs, rle, k + 1)

\* group_by_val(sorted_hashes, sorted_vals, sorted_obj_ids): within every
\* maximal run of equal hash, makes equal values contiguous, keeping the
\* relative order of the identifiers inside each value group.
group_by_val(sorted_hashes, sorted_vals, sorted_obj_ids) ==
    LET pairs == [i \in 1..Len(sorted_vals) |->
                     [v |-> sorted_vals[i], id |-> sorted_obj_ids[i]]]
        g == GroupRuns(pairs, run_length_encode(sorted_hashes), 1)
    IN [sorted_hashes  |-> sorted_hashes,
        sorted_vals    |-> [i \in 1..Len(g) |-> g[i].v],
        sorted_obj_ids |-> [i \in 1..Len(g) |-> g[i].id]]

----------------------------------------------------------------------------
\* ObjsByHash and FrozenAttrIndex.__init__

\* self.objs_by_hash = None
None == [none |-> TRUE]

\* The ObjsByHash dataclass: the parallel arrays and the bucket directory
\* obtained by run-length encoding the hashes.
ObjsByHash(sorted_obj_ids, sorted_vals, rle) ==
    [sorted_obj_ids   |-> sorted_obj_ids,
     sorted_vals      |-> sorted_vals,
     unique_hashes    |-> rle.unique,
     hash_starts      |-> rle.starts,
     hash_run_lengths |-> rle.run_lengths]

\* SortedArrays without the group_by_val call.
SortedArrays_NoGroup(os) ==
    sort_by_hash(os, arange(Len(os)))

\* The arrays after sort_by_hash and the in-place group_by_val.
SortedArrays(os) ==
    LET s == sort_by_hash(os, arange(Len(os)))
    IN group_by_val(s.sorted_hashes, s.sorted_vals, s.sorted_obj_ids)

\* ExceedsThresh with the boundary included.
ExceedsThresh_AtLeast(run_length, T) == run_length >= T

\* if val_run_lengths[i] > SIZE_THRESH
ExceedsThresh(run_length, T) == run_length > T

\* MarkUsed starting one position late.
MarkUsed_OffByOne(unused, start, end) ==
    [p \in 1..Len(unused) |-> IF start + 1 < p /\ p <= end THEN FALSE ELSE unused[p]]

\* unused[start:end] = False
MarkUsed(unused, start, end) ==
    [p \in 1..Len(unused) |-> IF start < p /\ p <= end THEN FALSE ELSE unused[p]]

\* A dict is the sequence of its items [key, ids] in insertion order.
\* The keys of d.
DictKeys(d) == {d[i].key : i \in 1..Len(d)}

\* d[val], for a key of d.
DictGet(d, val) == d[CHOOSE i \in 1..Len(d) : d[i].key = val].ids

\* self.val_to_obj_ids[val] = ids: a new key is appended, an existing key
\* keeps its place and gets the new entry.
DictPut(d, val, ids) ==
    IF val \in DictKeys(d)
    THEN [i \in 1..Len(d) |-> IF d[i].key = val THEN [key |-> val, ids |-> ids] ELSE d[i]]
    ELSE Append(d, [key |-> val, ids |-> ids])

\* The loop over unique_vals: every value whose run is longer than the
\* threshold is copied out, sorted, into val_to_obj_ids and its positions
\* are marked used.  st carries val_to_obj_ids, unused and n_unused.
RECURSIVE ExtractLoop(_, _, _, _, _)
ExtractLoop(i, st, vrle, sorted_obj_ids, T) ==
    IF i > Len(vrle.unique) THEN st
    ELSE IF ExceedsThresh(vrle.run_lengths[i], T)
         THEN LET start == vrle.starts[i]
                  end   == start + vrle.run_lengths[i]
                  obj_id_arr == Slice(sorted_obj_ids, start, end)
              IN ExtractLoop(i + 1,
                     [val_to_obj_ids |-> DictPut(st.val_to_obj_ids, vrle.unique[i],
                                                 np_sort(obj_id_arr)),
                      unused         |-> MarkUsed(st.unused, start, end),
                      n_unused       |-> st.n_unused - vrle.run_lengths[i]],
                     vrle, sorted_obj_ids, T)
         ELSE ExtractLoop(i + 1, st, vrle, sorted_obj_ids, T)

\* MixedObjsByHash encoding the hashes before compaction.
MixedObjsByHash_StaleHashes(sorted_obj_ids, sorted_hashes, sorted_vals, unused) ==
    ObjsByHash(Compact(sorted_obj_ids, unused),
               Compact(sorted_vals, unused),
               run_length_encode(sorted_hashes))

\* "we have a mix of cardinalities": keep the unused positions of the three
\* arrays and run-length encode the remaining hashes.
MixedObjsByHash(sorted_obj_ids, sorted_hashes, sorted_vals, unused) ==
    ObjsByHash(Compact(sorted_obj_ids, unused),
               Compact(sorted_vals, unused),
               run_length_encode(Compact(sorted_hashes, unused)))

\* FrozenAttrIndex.__init__(attr, objs, dtype): the two storage regions.
FrozenAttrIndex_init(os, T) ==
    LET a    == SortedArrays(os)
        vrle == run_length_encode(a.sorted_vals)
        st   == ExtractLoop(1,
                    [val_to_obj_ids |-> <<>>,
                     unused         |-> [p \in 1..Len(a.sorted_obj_ids) |-> TRUE],
                     n_unused       |-> Len(a.sorted_obj_ids)],
                    vrle, a.sorted_obj_ids, T)
    IN [val_to_obj_ids |-> st.val_to_obj_ids,
        objs_by_hash   |->
            IF st.n_unused = 0
            THEN None
            ELSE IF st.n_unused = Len(a.sorted_obj_ids)
            THEN ObjsByHash(a.sorted_obj_ids, a.sorted_vals,
                            run_length_encode(a.sorted_hashes))
            ELSE MixedObjsByHash(a.sorted_obj_ids, a.sorted_hashes,
                                 a.sorted_vals, st.unused)]

----------------------------------------------------------------------------
\* Queries.

\* bisect_left(a, x): the leftmost insertion point of x in the ascending a.
RECURSIVE bisect_left(_, _, _, _)
bisect_left(a, x, lo, hi) ==
    IF lo < hi
    THEN LET mid == (lo + hi) \div 2
         IN IF At(a, mid) < x
            THEN bisect_left(a, x, mid + 1, hi)
            ELSE bisect_left(a, x, lo, mid)
    ELSE lo

\* ShrinkStart without the loop.
ShrinkStart_Skip(sorted_vals, start, end, val) == start

\* while start < end and self.sorted_vals[start] != val: start += 1
RECURSIVE ShrinkStart(_, _, _, _)
ShrinkStart(sorted_vals, start, end, val) ==
    IF start < end /\ At(sorted_vals, start) # val
    THEN ShrinkStart(sorted_vals, start + 1, end, val)
    ELSE start

\* ShrinkEnd without the loop.
ShrinkEnd_Skip(sorted_vals, start, end, val) == end

\* while end > start and self.sorted_vals[end - 1] != val: end -= 1
RECURSIVE ShrinkEnd(_, _, _, _)
ShrinkEnd(sorted_vals, start, end, val) ==
    IF end > start /\ At(sorted_vals, end - 1) # val
    THEN ShrinkEnd(sorted_vals, start, end - 1, val)
    ELSE end

\* ObjsByHash.get(val)
ObjsByHash_get(self, val) ==
    LET val_hash == hash(val)
        i == bisect_left(self.unique_hashes, val_hash, 0, Len(self.unique_hashes))
    IN IF i < 0 \/ i >= Len(self.unique_hashes) \/ At(self.unique_hashes, i) # val_hash
       THEN make_empty_array
       ELSE LET start0 == At(self.hash_starts, i)
                end0   == At(self.hash_starts, i) + At(self.hash_run_lengths, i)
                start  == ShrinkStart(self.sorted_vals, start0, end0, val)
                end    == ShrinkEnd(self.sorted_vals, start, end0, val)
            IN IF end = start
               THEN make_empty_array
               ELSE Slice(self.sorted_obj_ids, start, end)

Returned(x) == [raised |-> "none", ret |-> x]
Raised(e)   == [raised |-> e, ret |-> <<>>]

\* FrozenAttrIndex.get without the val_to_obj_ids branch.
FrozenAttrIndex_get_NoDict(d, obh, val) ==
    IF obh # None
    THEN Returned(np_sort(ObjsByHash_get(obh, val)))
    ELSE Returned(make_empty_array)

\* FrozenAttrIndex.get(val)
FrozenAttrIndex_get(d, obh, val) ==
    IF val \in DictKeys(d)
    THEN Returned(DictGet(d, val))
    ELSE IF obh # None
    THEN Returned(np_sort(ObjsByHash_get(obh, val)))
    ELSE Returned(make_empty_array)

\* for v in self.val_to_obj_ids.values(): arrs.append(v), concatenated:
\* the entries in dict insertion order.
RECURSIVE ConcatValues(_)
ConcatValues(d) ==
    IF Len(d) = 0 THEN <<>>
    ELSE d[1].ids \o ConcatValues(Tail(d))

\* FrozenAttrIndex.get_all without the final np.sort.
FrozenAttrIndex_get_all_NoSort(d, obh) ==
    IF obh = None /\ Len(d) = 0
    THEN Raised("ValueError")
    ELSE Returned((IF obh = None THEN <<>> ELSE obh.sorted_obj_ids)
                    \o ConcatValues(d))

\* FrozenAttrIndex.get_all(): np.concatenate raises ValueError on an empty
\* list of arrays.
FrozenAttrIndex_get_all(d, obh) ==
    IF obh = None /\ Len(d) = 0
    THEN Raised("ValueError")
    ELSE Returned(np_sort((IF obh = None THEN <<>> ELSE obh.sorted_obj_ids)
                            \o ConcatValues(d)))

\* sum(len(v) for v in self.val_to_obj_ids.values())
RECURSIVE SumLens(_)
SumLens(d) ==
    IF Len(d) = 0 THEN 0
    ELSE Len(d[1].ids) + SumLens(Tail(d))

\* FrozenAttrIndex.__len__(): reads self.objs_by_hash.sorted_obj_ids
\* unconditionally, which raises AttributeError on None.
FrozenAttrIndex_len(d, obh) ==
    IF obh = None
    THEN Raised("AttributeError")
    ELSE Returned(SumLens(d) + Len(obh.sorted_obj_ids))

----------------------------------------------------------------------------
\* The state machine.

ObjSeqs == UNION {[1..n -> Vals] : n \in 0..MaxLen}

Init ==
    /\ objs \in ObjSeqs
    /\ SIZE_THRESH \in 0..MaxThresh
    /\ val_to_obj_ids = FrozenAttrIndex_init(objs, SIZE_THRESH).val_to_obj_ids
    /\ objs_by_hash = FrozenAttrIndex_init(objs, SIZE_THRESH).objs_by_hash
    /\ call = [op |-> "init"]
    /\ ret = <<>>
    /\ raised = "none"

Get(val) ==
    LET r == FrozenAttrIndex_get(val_to_obj_ids, objs_by_hash, val)
    IN /\ call' = [op |-> "get", val |-> val]
       /\ ret' = r.ret
       /\ raised' = r.raised
       /\ UNCHANGED <<objs, SIZE_THRESH, val_to_obj_ids, objs_by_hash>>

GetAll ==
    LET r == FrozenAttrIndex_get_all(val_to_obj_ids, objs_by_hash)
    IN /\ call' = [op |-> "get_all"]
       /\ ret' = r.ret
       /\ raised' = r.raised
       /\ UNCHANGED <<objs, SIZE_THRESH, val_to_obj_ids, objs_by_hash>>

Size ==
    LET r == FrozenAttrIndex_len(val_to_obj_ids, objs_by_hash)
    IN /\ call' = [op |-> "len"]
       /\ ret' = r.ret
       /\ raised' = r.raised
       /\ UNCHANGED <<objs, SIZE_THRESH, val_to_obj_ids, objs_by_hash>>

Next ==
    \/ \E val \in Vals : Get(val)
    \/ GetAll
    \/ Size

Spec == Init /\ [][Next]_vars

----------------------------------------------------------------------------
\* Vocabulary of the properties.

\* Number of objects the index was built from; identifiers are 0..N-1.
N == Len(objs)
Ids == 0..(N - 1)

\* The identifiers of the objects whose attribute value is v.
IdsOf(v) == {id \in Ids : At(objs, id) = v}

\* Number of occurrences of x in the sequence s.
Occ(s, x) == Cardinality({i \in 1..Len(s) : s[i] = x})

StrictlyAscending(s) == \A i \in 1..(Len(s) - 1) : s[i] < s[i + 1]

Absent == objs_by_hash = None

\* The keys of the high-cardinality mapping and the entry of key k.
Keys == DictKeys(val_to_obj_ids)
Entry(k) == DictGet(val_to_obj_ids, k)

\* The identifier sequence of the Collision-Bucketed Index, empty if absent.
BucketedIds == IF Absent THEN <<>> ELSE objs_by_hash.sorted_obj_ids

\* Directory entries of the Collision-Bucketed Index and the 0-based
\* positions entry i spans.
Entries == IF Absent THEN {} ELSE 1..Len(objs_by_hash.unique_hashes)
Rng(i) == {p \in 0..(N - 1) :
              /\ objs_by_hash.hash_starts[i] <= p
              /\ p < objs_by_hash.hash_starts[i] + objs_by_hash.hash_run_lengths[i]}

\* Entry i holds at least two distinct values (a hash collision).
Collides(i) ==
    \E p, q \in Rng(i) :
        /\ p < Len(objs_by_hash.sorted_vals)
        /\ q < Len(objs_by_hash.sorted_vals)
        /\ At(objs_by_hash.sorted_vals, p) # At(objs_by_hash.sorted_vals, q)

\* Both storage regions are in use.
Mixed == ~Absent /\ Keys # {}

----------------------------------------------------------------------------
\* C1. Lookup correctness of get: get(v) never raises, it contains the
\* identifier of every object whose value is v, and it is empty for a value
\* no indexed object carries, whatever its hash.
LookupCorrect ==
    call.op = "get" =>
        /\ raised = "none"
        /\ \A id \in IdsOf(call.val) : Occ(ret, id) >= 1
        /\ (IdsOf(call.val) = {} => ret = <<>>)

\* get of a value that no object carries but whose hash is in the bucket
\* directory returned empty.
LookupWitness ==
    /\ call.op = "get"
    /\ IdsOf(call.val) = {}
    /\ ~Absent
    /\ \E i \in Entries : objs_by_hash.unique_hashes[i] = hash(call.val)
    /\ \E v \in Keys : hash(v) = hash(call.val)
    /\ ret = <<>>
    /\ raised = "none"

\* C2. Partition completeness: every identifier of 0..N-1 occurs exactly
\* once across the entries of val_to_obj_ids and sorted_obj_ids together,
\* and nothing else occurs there.
PartitionComplete ==
    /\ \A id \in Ids :
          \/ /\ Occ(BucketedIds, id) = 1
             /\ \A k \in Keys : Occ(Entry(k), id) = 0
          \/ /\ Occ(BucketedIds, id) = 0
             /\ \E k \in Keys :
                   /\ Occ(Entry(k), id) = 1
                   /\ \A k2 \in Keys \ {k} :
                         Occ(Entry(k2), id) = 0
    /\ Elems(BucketedIds) \subseteq Ids
    /\ \A k \in Keys : Elems(Entry(k)) \subseteq Ids

\* An index using both regions, built from colliding values.
PartitionWitness ==
    /\ Mixed
    /\ \E v \in Keys :
          \E i \in Entries : objs_by_hash.unique_hashes[i] = hash(v)
    /\ Len(BucketedIds) >= 2

\* C3. __len__ returns the number of indexed objects and does not fault,
\* also when the Collision-Bucketed Index is absent.
SizeCorrect ==
    call.op = "len" => (raised = "none" /\ ret = N)

\* C4. get_all never fails and returns exactly the identifiers 0..N-1,
\* also when either region, or both, is empty.
GetAllCovers ==
    call.op = "get_all" => (raised = "none" /\ ret = arange(N))

\* C5. No false positives under hash collisions: get(v) returns only
\* identifiers of objects whose value is v, and inside ObjsByHash.get the
\* shrunk range [start, end) is exactly the set of positions of the bucket
\* that hold the target.
NoFalsePositives ==
    /\ call.op = "get" => \A id \in Elems(ret) : id \in IdsOf(call.val)
    /\ \A v \in Vals : \A i \in Entries :
          objs_by_hash.unique_hashes[i] = hash(v) =>
              LET start0 == objs_by_hash.hash_starts[i]
                  end0   == start0 + objs_by_hash.hash_run_lengths[i]
                  start  == ShrinkStart(objs_by_hash.sorted_vals, start0, end0, v)
                  end    == ShrinkEnd(objs_by_hash.sorted_vals, start, end0, v)
              IN {p \in Rng(i) : start <= p /\ p < end}
                   = {p \in Rng(i) : At(objs_by_hash.sorted_vals, p) = v}

\* get of a value stored in a bucket it shares with another value returned
\* a non-empty result.
CollisionWitness ==
    /\ call.op = "get"
    /\ ret # <<>>
    /\ call.val \notin Keys
    /\ \E i \in Entries :
          /\ objs_by_hash.unique_hashes[i] = hash(call.val)
          /\ Collides(i)

\* C6. Threshold boundary: a value is a key of val_to_obj_ids, with none of
\* its identifiers in the Collision-Bucketed Index, exactly when more than
\* SIZE_THRESH objects carry it; a value carried by 1..SIZE_THRESH objects
\* is not a key and all its identifiers are in the Collision-Bucketed Index.
ThresholdRouting ==
    \A v \in Vals :
        LET c == Cardinality(IdsOf(v))
        IN /\ c > SIZE_THRESH =>
                 /\ v \in Keys
                 /\ IdsOf(v) \cap Elems(BucketedIds) = {}
           /\ c <= SIZE_THRESH =>
                 /\ v \notin Keys
                 /\ IdsOf(v) \subseteq Elems(BucketedIds)

\* One value occurs exactly SIZE_THRESH times and another SIZE_THRESH + 1
\* times, under the same hash.
ThresholdWitness ==
    /\ SIZE_THRESH >= 1
    /\ \E v, w \in Vals :
          /\ hash(v) = hash(w)
          /\ Cardinality(IdsOf(v)) = SIZE_THRESH
          /\ Cardinality(IdsOf(w)) = SIZE_THRESH + 1
          /\ v \notin Keys
          /\ w \in Keys

\* C7. Output ordering: every sequence returned by get or get_all, and
\* every entry of val_to_obj_ids, is strictly ascending (hence free of
\* duplicates).
OutputOrdered ==
    /\ \A k \in Keys : StrictlyAscending(Entry(k))
    /\ (call.op \in {"get", "get_all"} /\ raised = "none") => StrictlyAscending(ret)

\* get_all returned from an index using both regions whose bucketed
\* identifier sequence is not itself ascending.
OrderingWitness ==
    /\ call.op = "get_all"
    /\ raised = "none"
    /\ Mixed
    /\ ~StrictlyAscending(BucketedIds)
    /\ Len(ret) >= 3

\* C8. Directory correctness: unique_hashes is strictly ascending, the
\* ranges of the directory entries are pairwise disjoint and cover every
\* position of the parallel arrays, and every position of entry i holds a
\* value whose hash is unique_hashes[i].
DirectoryCorrect ==
    ~Absent =>
        LET o == objs_by_hash
            L == Len(o.sorted_obj_ids)
        IN /\ Len(o.sorted_vals) = L
           /\ Len(o.hash_starts) = Len(o.unique_hashes)
           /\ Len(o.hash_run_lengths) = Len(o.unique_hashes)
           /\ \A i \in Entries : o.hash_run_lengths[i] >= 1
           /\ \A i \in Entries : i > 1 => o.unique_hashes[i - 1] < o.unique_hashes[i]
           /\ \A i, j \in Entries : i # j => Rng(i) \cap Rng(j) = {}
           /\ \A i \in Entries : Cardinality(Rng(i)) = o.hash_run_lengths[i]
           /\ UNION {Rng(i) : i \in Entries} = 0..(L - 1)
           /\ \A i \in Entries : \A p \in Rng(i) :
                 hash(At(o.sorted_vals, p)) = o.unique_hashes[i]

\* A compacted index (some value extracted) with two buckets, one of them
\* holding colliding values.
DirectoryWitness ==
    /\ Mixed
    /\ Len(objs_by_hash.unique_hashes) >= 2
    /\ \E i \in Entries : Collides(i)

\* C9. Value contiguity: inside every bucket of the stored index the
\* positions holding one value form a single contiguous run.
ValuesContiguous ==
    \A i \in Entries : \A p, q \in Rng(i) :
        (p < q /\ At(objs_by_hash.sorted_vals, p) = At(objs_by_hash.sorted_vals, q))
            => \A r \in p..q :
                  At(objs_by_hash.sorted_vals, r) = At(objs_by_hash.sorted_vals, p)

\* A value that shared its hash with an extracted value remains in the
\* compacted bucket at two adjacent positions, although its objects were
\* not adjacent in the input.
ContiguityWitness ==
    /\ Mixed
    /\ \E k \in Keys : \E i \in Entries :
          /\ objs_by_hash.unique_hashes[i] = hash(k)
          /\ \E p \in Rng(i) :
                /\ (p + 1) \in Rng(i)
                /\ At(objs_by_hash.sorted_vals, p) = At(objs_by_hash.sorted_vals, p + 1)
                /\ At(objs_by_hash.sorted_obj_ids, p + 1)
                     > At(objs_by_hash.sorted_obj_ids, p) + 1

\* C10. The slice ObjsByHash.get returns is already strictly ascending, so
\* the np.sort applied to it in FrozenAttrIndex.get leaves it unchanged.
SliceAlreadySorted ==
    /\ ~Absent => \A v \in Vals : StrictlyAscending(ObjsByHash_get(objs_by_hash, v))
    /\ (call.op = "get" /\ call.val \notin Keys /\ ~Absent)
          => ret = ObjsByHash_get(objs_by_hash, call.val)

\* get resolved a value inside a bucket whose identifiers are not in
\* ascending order as a whole, and returned at least two identifiers.
SliceWitness ==
    /\ call.op = "get"
    /\ call.val \notin Keys
    /\ Len(ret) >= 2
    /\ \E i \in Entries :
          /\ objs_by_hash.unique_hashes[i] = hash(call.val)
          /\ Collides(i)
          /\ \E p \in Rng(i) :
                /\ (p + 1) \in Rng(i)
                /\ At(objs_by_hash.sorted_obj_ids, p)
                     > At(objs_by_hash.sorted_obj_ids, p + 1)

====
